---------------------------- MODULE Spec2Model ----------------------------
(* Model of the DeadByDaylight pack creator: src/src/helper.rs (hex parsing, *)
(* grayscale tinting, layer stacking) and src/src/main.rs (the batch loop).  *)
(* Strings are sequences of one-character strings, so that trimming,         *)
(* splitting and byte slicing are computed the way the code computes them.   *)
EXTENDS Integers, Sequences, FiniteSets, TLC

VARIABLES
    hex,        \* hex_to_rgb: the argument `hex`
    gray,       \* colorize_grayscale_image: p[0] of the pixel
    alpha,      \* colorize_grayscale_image: p[1] of the pixel
    threshold,  \* colorize_grayscale_image: the argument `threshold`
    ret,        \* the value returned by the function under study, or Pending
    config,         \* element type -> asset ids (the keys of its JSON map)
    files,          \* the layer files that exist, as paths
    pc,             \* main: where the batch loop stands
    type_idx,       \* main: index into element_types
    remaining,      \* main: entries of the current map not yet iterated
    current_image,  \* main: progress counter
    filename,       \* main: the asset id of the iteration
    layers,         \* main: the layer list of the iteration
    item_img,       \* main: the base image of the iteration
    final_img,      \* main: the canvas of the iteration
    layer_idx,      \* main: position of `for layer_name in layers`
    skipped_images, \* the skipped-assets diagnostic
    missing_layers, \* the missing-layers diagnostic
    saved,          \* output files written, as paths
    opened,         \* history: image::open calls on layer files of the iteration
    ops,            \* history: overlay calls on the canvas of the iteration
    attempted,      \* history: (element_type, asset_id) pairs the loop started
    base_failed,    \* history: pairs whose base image failed to open
    base_files,     \* worker pool: the pairs whose base image exists
    queue,          \* worker pool: tasks no worker has taken yet
    wpc,            \* worker pool: where each worker stands
    wtask,          \* worker pool: the task of each worker
    wcanvas,        \* worker pool: the canvas each worker owns
    wmissing,       \* worker pool: what stack_layers returned to each worker
    wsnap,          \* worker pool: the list a worker read, in a push
    mutex           \* worker pool: the holder of each collection's lock

purevars == <<hex, gray, alpha, threshold, ret>>
iovars   == <<config, files>>
itervars == <<filename, layers, item_img, final_img, layer_idx, opened, ops>>
diagvars == <<skipped_images, missing_layers, saved>>
histvars == <<attempted, base_failed>>
mainvars == <<pc, type_idx, remaining, current_image>>
parvars  == <<base_files, queue, wpc, wtask, wcanvas, wmissing, wsnap, mutex>>
vars == <<purevars, iovars, itervars, diagvars, histvars, mainvars, parvars>>

Pending == [tag |-> "Pending"]

(***************************************************************************)
(* Bounds of the model                                                     *)
(***************************************************************************)
MaxHashes  == 2      \* leading '#' characters put before a hex_to_rgb input
MaxBodyLen == 7      \* characters of a hex_to_rgb input after those
MaxLayers  == 3      \* longest layer list of an asset
MaxTasks   == 2      \* most (element_type, asset_id) pairs of a configuration

(***************************************************************************)
(* Characters and strings                                                  *)
(***************************************************************************)
\* UTF-8 width of a character: str::len and str slicing count bytes.
\* "U+00E9" stands for the one character e-acute, which takes two bytes.
ByteLen(c) == IF c = "U+00E9" THEN 2 ELSE 1

RECURSIVE StrByteLen(_)
StrByteLen(s) == IF s = <<>> THEN 0 ELSE ByteLen(Head(s)) + StrByteLen(Tail(s))

\* char::to_digit(16), -1 when the character is no hexadecimal digit
HexVal(c) ==
    CASE c = "0" -> 0 [] c = "1" -> 1 [] c = "2" -> 2 [] c = "3" -> 3
      [] c = "4" -> 4 [] c = "5" -> 5 [] c = "6" -> 6 [] c = "7" -> 7
      [] c = "8" -> 8 [] c = "9" -> 9
      [] c \in {"a", "A"} -> 10 [] c \in {"b", "B"} -> 11
      [] c \in {"c", "C"} -> 12 [] c \in {"d", "D"} -> 13
      [] c \in {"e", "E"} -> 14 [] c \in {"f", "F"} -> 15
      [] OTHER -> -1

IsHexDigit(c) == HexVal(c) >= 0

\* str::trim_start_matches('#'): removes EVERY leading '#'
RECURSIVE trim_start_matches(_)
trim_start_matches(s) ==
    IF s # <<>> /\ Head(s) = "#" THEN trim_start_matches(Tail(s)) ELSE s

\* What a slice yields when an end of its range is inside a character
SlicePanic == <<"panic">>

\* The characters of s lying in the byte range [from, to) (&hex[from..to]),
\* or SlicePanic when an end of the range is not on a character boundary.
RECURSIVE ByteSlice(_, _, _)
ByteSlice(s, from, to) ==
    IF to = 0 THEN IF from = 0 THEN <<>> ELSE SlicePanic
    ELSE IF s = <<>> THEN SlicePanic
    ELSE LET w == ByteLen(Head(s)) IN
         IF from >= w THEN ByteSlice(Tail(s), from - w, to - w)
         ELSE IF from > 0 \/ to < w THEN SlicePanic
         ELSE LET rest == ByteSlice(Tail(s), 0, to - w) IN
              IF rest = SlicePanic THEN SlicePanic ELSE <<Head(s)>> \o rest

\* The digit loop of u8::from_str_radix: -1 on an invalid digit or on overflow
RECURSIVE ParseDigits(_, _)
ParseDigits(digits, acc) ==
    IF digits = <<>> THEN acc
    ELSE IF ~IsHexDigit(Head(digits)) THEN -1
    ELSE LET v == acc * 16 + HexVal(Head(digits)) IN
         IF v > 255 THEN -1 ELSE ParseDigits(Tail(digits), v)

\* u8::from_str_radix(src, 16): an unsigned parse accepts one leading '+'
\* (but not a lone sign), never a '-'.  -1 stands for Err.
u8_from_str_radix(src) ==
    IF src = <<>> THEN -1
    ELSE IF Head(src) \in {"+", "-"} /\ Tail(src) = <<>> THEN -1
    ELSE IF Head(src) = "+" THEN ParseDigits(Tail(src), 0)
    ELSE ParseDigits(src, 0)

\* helper.rs hex_to_rgb: Ok((r, g, b)), Err, or a panic of the slicing
hex_to_rgb(h) ==
    LET t == trim_start_matches(h) IN
    IF StrByteLen(t) # 6 THEN [tag |-> "Err"]
    ELSE LET rs == ByteSlice(t, 0, 2)
             r  == IF rs = SlicePanic THEN -1 ELSE u8_from_str_radix(rs)
             gs == ByteSlice(t, 2, 4)
             g  == IF gs = SlicePanic THEN -1 ELSE u8_from_str_radix(gs)
             bs == ByteSlice(t, 4, 6)
             b  == IF bs = SlicePanic THEN -1 ELSE u8_from_str_radix(bs)
         IN  IF rs = SlicePanic THEN [tag |-> "Panic"]
             ELSE IF r < 0 THEN [tag |-> "Err"]
             ELSE IF gs = SlicePanic THEN [tag |-> "Panic"]
             ELSE IF g < 0 THEN [tag |-> "Err"]
             ELSE IF bs = SlicePanic THEN [tag |-> "Panic"]
             ELSE IF b < 0 THEN [tag |-> "Err"]
             ELSE [tag |-> "Ok", rgb |-> <<r, g, b>>]

(***************************************************************************)
(* Grayscale tinting                                                       *)
(***************************************************************************)
U8  == 0 .. 255
U16(n) == n % 65536
AsU8(n) == n % 256

TintChannel_u8(scale, tint) == AsU8(AsU8(scale * tint) \div 255)

\* (scale * tint as u16 / 255) as u8, scale being gray as u16
TintChannel(scale, tint) == AsU8(U16(scale * tint) \div 255)

\* The closure of colorize_grayscale_image for one LumaA pixel <<gray, alpha>>
ColorizePixel(p, tint, thr) ==
    IF p[1] < thr
    THEN <<p[1], p[1], p[1], p[2]>>
    ELSE <<TintChannel(p[1], tint[1]), TintChannel(p[1], tint[2]),
           TintChannel(p[1], tint[3]), p[2]>>

\* colorize_grayscale_image on a one-pixel image: Err when the colour does
\* not parse (the `?` on hex_to_rgb), else the tinted pixel
colorize_grayscale_image(p, hex_color, thr) ==
    LET c == hex_to_rgb(hex_color) IN
    IF c.tag # "Ok" THEN [tag |-> c.tag]
    ELSE [tag |-> "Ok", px |-> ColorizePixel(p, c.rgb, thr)]

(***************************************************************************)
(* Images: RGBA8 rasters, a pixel being <<r, g, b, a>>                     *)
(***************************************************************************)
Coords(w, h) == (0 .. w - 1) \X (0 .. h - 1)

Image(w, h, data) == [width |-> w, height |-> h, data |-> data]

\* image::DynamicImage::new_rgba8(w, h): every pixel zero, hence alpha = 0
new_rgba8(w, h) == Image(w, h, [c \in Coords(w, h) |-> <<0, 0, 0, 0>>])

Min(a, b) == IF a < b THEN a ELSE b

\* Rgba<u8>::blend (source-over, straight alpha).  The library computes in
\* f32 and truncates; the model computes the same quotients exactly.
blend(bg, fg) ==
    IF fg[4] = 0 THEN bg
    ELSE IF fg[4] = 255 THEN fg
    ELSE LET af == 255 * bg[4] + 255 * fg[4] - bg[4] * fg[4]
             ch(i) == (fg[i] * fg[4] * 255 + bg[i] * bg[4] * (255 - fg[4])) \div af
         IN  <<ch(1), ch(2), ch(3), af \div 255>>

\* imageops::overlay(&mut bottom, &top, 0, 0): blends top over bottom on the
\* rectangle the two images share; bottom keeps its dimensions.  (The set
\* binds the two images to their values, so each is evaluated once.)
overlay(bottom_image, top_image) ==
    CHOOSE out \in
        {[bottom EXCEPT !.data =
            [c \in Coords(bottom.width, bottom.height) |->
                IF c[1] < Min(bottom.width, top.width)
                   /\ c[2] < Min(bottom.height, top.height)
                THEN blend(bottom.data[c], top.data[c])
                ELSE bottom.data[c]]] :
            bottom \in {bottom_image}, top \in {top_image}} : TRUE

\* rgb_to_luma of DynamicImage::to_luma_alpha8 (sRGB weights, integer)
rgb_to_luma(px) == (2126 * px[1] + 7152 * px[2] + 722 * px[3]) \div 10000

to_luma_alpha8(img) ==
    [c \in Coords(img.width, img.height) |->
        <<rgb_to_luma(img.data[c]), img.data[c][4]>>]

\* colorize_grayscale_image on a whole image (ImageBuffer::from_fn)
ColorizeImage(img, hex_color, thr) ==
    CHOOSE out \in
        {IF c.tag # "Ok" THEN [tag |-> c.tag]
         ELSE [tag |-> "Ok",
               img |-> Image(img.width, img.height,
                         [q \in Coords(img.width, img.height) |->
                             ColorizePixel(g[q], c.rgb, thr)])] :
            c \in {hex_to_rgb(hex_color)}, g \in {to_luma_alpha8(img)}} : TRUE

(***************************************************************************)
(* Paths and layer specs                                                   *)
(***************************************************************************)
Str_png == <<".", "p", "n", "g">>

\* force_png_path(base, name) = base.join(format!("{}.png", name))
force_png_path(base, name) == [dir |-> base, file |-> name \o Str_png]

Str_none == <<"n", "o", "n", "e">>

\* layer_name.is_empty() || layer_name == "none"
IsSentinel(layer_name) == layer_name = <<>> \/ layer_name = Str_none

RECURSIVE FindHash(_, _)
FindHash(s, i) ==
    IF i > Len(s) THEN 0 ELSE IF s[i] = "#" THEN i ELSE FindHash(s, i + 1)

None == [some |-> FALSE]
Some(v) == [some |-> TRUE, val |-> v]

\* layer_name.splitn(2, '#'): the part before the first '#', and the rest
splitn2(s) ==
    LET i == FindHash(s, 1) IN
    IF i = 0 THEN [base_name |-> s, hex_color |-> None]
    ELSE [base_name |-> SubSeq(s, 1, i - 1),
          hex_color |-> Some(SubSeq(s, i + 1, Len(s)))]

(***************************************************************************)
(* The files of a run                                                      *)
(***************************************************************************)
Str_frame == <<"f", "r", "a", "m", "e">>
Str_glow  == <<"g", "l", "o", "w">>
Str_sword == <<"s", "w", "o", "r", "d">>
Str_axe   == <<"a", "x", "e">>
Str_red   == <<"f", "f", "0", "0", "0", "0">>

Spec_frame_red == Str_frame \o <<"#">> \o Str_red

\* A grayscale mask with alpha, a small RGBA image, a coloured frame
FrameImg ==
    Image(2, 2, [c \in Coords(2, 2) |->
        CASE c = <<0, 0>> -> <<200, 200, 200, 255>>
          [] c = <<1, 0>> -> <<20, 20, 20, 128>>
          [] c = <<0, 1>> -> <<100, 100, 100, 128>>
          [] OTHER        -> <<0, 0, 0, 0>>])
GlowImg == Image(1, 1, [c \in Coords(1, 1) |-> <<0, 255, 0, 128>>])
RedFrameImg ==
    Image(2, 1, [c \in Coords(2, 1) |->
        IF c = <<0, 0>> THEN <<255, 0, 0, 64>> ELSE <<0, 0, 0, 0>>])

\* The decoded content of a layer file, by file name
LayerImage(file) ==
    CASE file = Str_frame \o Str_png -> FrameImg
      [] file = Str_glow \o Str_png  -> GlowImg
      [] OTHER                       -> RedFrameImg

\* Base images: one opaque and one half-transparent pixel; a single
\* half-transparent pixel
BaseA ==
    Image(2, 1, [c \in Coords(2, 1) |->
        IF c = <<0, 0>> THEN <<10, 20, 30, 255>> ELSE <<90, 60, 30, 128>>])
BaseB == Image(1, 1, [c \in Coords(1, 1) |-> <<40, 40, 200, 128>>])
BaseImages == {BaseA, BaseB}

\* image::open on a layer path
OpenImage(path, fileset) ==
    IF path \in fileset THEN Some(LayerImage(path.file)) ELSE None

(***************************************************************************)
(* helper.rs: stack_layers                                                 *)
(***************************************************************************)
\* One iteration of `for layer_name in layers`, on
\* st = [img, missing_layer_paths, opened, ops]
stack_layers_step(st, i, lyrs, layer_folder, fileset) ==
    LET layer_name == lyrs[i] IN
    IF IsSentinel(layer_name) THEN st
    ELSE LET parts == splitn2(layer_name)
             layer_img_path == force_png_path(layer_folder, parts.base_name)
             r == OpenImage(layer_img_path, fileset)
         IN  IF r.some
             THEN LET colored ==
                          IF parts.hex_color.some
                          THEN ColorizeImage(r.val, parts.hex_color.val, 37)
                          ELSE [tag |-> "None"]
                      processed_img ==
                          IF colored.tag = "Ok" THEN colored.img ELSE r.val
                  IN  [st EXCEPT
                          !.img = overlay(@, processed_img),
                          !.opened = Append(@, [idx |-> i, path |-> layer_img_path,
                                                ok |-> TRUE]),
                          !.ops = Append(@, [src |-> "layer", idx |-> i])]
             ELSE [st EXCEPT
                      !.missing_layer_paths = Append(@, layer_img_path),
                      !.opened = Append(@, [idx |-> i, path |-> layer_img_path,
                                            ok |-> FALSE])]

\* `for layer_name in layers`, from the i-th spec on
RECURSIVE stack_layers_loop(_, _, _, _, _)
stack_layers_loop(st, i, lyrs, layer_folder, fileset) ==
    IF i > Len(lyrs) THEN st
    ELSE CHOOSE out \in
            {stack_layers_loop(next, i + 1, lyrs, layer_folder, fileset) :
                next \in {stack_layers_step(st, i, lyrs, layer_folder, fileset)}} : TRUE

\* stack_layers(input_image, input_image_path, layer_folder, layers): the
\* image after the loop and the returned list, which holds one grouped entry
\* when a layer was missing and nothing otherwise
stack_layers(input_image, input_image_path, layer_folder, lyrs, fileset) ==
    LET st == stack_layers_loop(
                  [img |-> input_image, missing_layer_paths |-> <<>>,
                   opened |-> <<>>, ops |-> <<>>],
                  1, lyrs, layer_folder, fileset)
    IN  [img |-> st.img,
         opened |-> st.opened,
         ops |-> st.ops,
         missing_layers |->
            IF st.missing_layer_paths # <<>>
            THEN <<[asset |-> input_image_path, paths |-> st.missing_layer_paths]>>
            ELSE <<>>]

(***************************************************************************)
(* main.rs: the tables of main                                             *)
(***************************************************************************)
element_types ==
    <<"items", "addons", "powers", "offerings", "perks", "actions",
      "character_portraits", "loading_screen", "status_effects", "archive",
      "emblems">>

ElementTypeSet == {element_types[i] : i \in 1 .. Len(element_types)}

background_base_folder == "Rarities"

background_type_folders ==
    [t \in {"items", "addons", "powers", "offerings", "perks"} |->
        CASE t = "offerings" -> "offerings"
          [] t = "perks"     -> "perks"
          [] OTHER           -> "addons-items-powers"]

pack_type_folders ==
    [t \in ElementTypeSet |->
        CASE t = "items"               -> <<"SourcePack", "Items">>
          [] t = "addons"              -> <<"SourcePack", "ItemAddons">>
          [] t = "powers"              -> <<"SourcePack", "Powers">>
          [] t = "offerings"           -> <<"SourcePack", "Favors">>
          [] t = "perks"               -> <<"SourcePack", "Perks">>
          [] t = "actions"             -> <<"SourcePack", "Actions">>
          [] t = "character_portraits" -> <<"SourcePack", "CharPortraits">>
          [] t = "loading_screen"      -> <<"SourcePack", "HelpLoading">>
          [] t = "status_effects"      -> <<"SourcePack", "StatusEffects">>
          [] t = "archive"             -> <<"SourcePack", "Archive">>
          [] OTHER                     -> <<"SourcePack", "Emblems">>]

output_folder == "Output_Pack"

\* background_type_folders.get(element_type)
rarity_folder_opt(t) ==
    IF t \in DOMAIN background_type_folders
    THEN Some(background_type_folders[t]) ELSE None

\* Path::new(output_folder).join(pack_folder_name).join("{filename}.png")
output_path(t, name) ==
    LET pack_folder == pack_type_folders[t] IN
    [dir |-> <<output_folder, pack_folder[Len(pack_folder)]>>,
     file |-> name \o Str_png]

\* force_png_path(Path::new(pack_folder), filename)
item_img_path(t, name) == force_png_path(pack_type_folders[t], name)

(***************************************************************************)
(* main.rs: the body of the per-asset loop                                 *)
(***************************************************************************)
\* let no_layer = ...; let mut final_img = if no_layer { clone } else { new }
main_initial_canvas(item, lyrs) ==
    LET no_layer == lyrs = <<>> \/ lyrs[1] = Str_none IN
    IF no_layer THEN item ELSE new_rgba8(item.width, item.height)

\* One iteration of `for layer_name in layers`, on the canvas and the
\* histories st = [img, opened, ops]
main_layer_step(st, i, lyrs, rarity, fileset) ==
    LET layer_name == lyrs[i] IN
    IF IsSentinel(layer_name) THEN st
    ELSE IF ~rarity.some THEN st
    ELSE LET layer_img_path ==
                 force_png_path(<<background_base_folder, rarity.val>>, layer_name)
             r == OpenImage(layer_img_path, fileset)
         IN  IF r.some
             THEN [img    |-> overlay(st.img, r.val),
                   opened |-> Append(st.opened,
                                [idx |-> i, path |-> layer_img_path, ok |-> TRUE]),
                   ops    |-> Append(st.ops, [src |-> "layer", idx |-> i])]
             ELSE [st EXCEPT !.opened =
                       Append(@, [idx |-> i, path |-> layer_img_path, ok |-> FALSE])]

main_overlay_base_if_layers(st, item) ==
    IF st.ops = <<>> THEN st
    ELSE [st EXCEPT !.img = overlay(@, item), !.ops = Append(@, [src |-> "base"])]

\* overlay(&mut final_img, &item_img, 0, 0) after the layer loop
main_overlay_base(st, item) ==
    [st EXCEPT !.img = overlay(@, item), !.ops = Append(@, [src |-> "base"])]

\* `for layer_name in layers`, from the i-th spec on
RECURSIVE main_layer_loop(_, _, _, _, _)
main_layer_loop(st, i, lyrs, rarity, fileset) ==
    IF i > Len(lyrs) THEN st
    ELSE CHOOSE out \in
            {main_layer_loop(next, i + 1, lyrs, rarity, fileset) :
                next \in {main_layer_step(st, i, lyrs, rarity, fileset)}} : TRUE

\* The image main saves for a base image and a layer list
main_final_img(item, lyrs, rarity, fileset) ==
    main_overlay_base(
        main_layer_loop([img |-> main_initial_canvas(item, lyrs),
                         opened |-> <<>>, ops |-> <<>>],
                        1, lyrs, rarity, fileset),
        item).img

(***************************************************************************)
(* main.rs: the batch loop as a state machine                              *)
(***************************************************************************)
AssetIds   == {Str_sword, Str_axe}
ModelTypes == {"perks", "actions"}
MainLayerSpecs == {<<>>, Str_none, Str_glow, Spec_frame_red}
LayerLists(specs) == UNION {[1 .. n -> specs] : n \in 0 .. MaxLayers}
MainLayerFiles ==
    {force_png_path(<<background_base_folder, "perks">>, n) :
        n \in {Str_glow, Spec_frame_red}}

\* The (element_type, asset_id) pairs of a configuration
Pairs(cfg) == {pr \in ElementTypeSet \X AssetIds : pr[2] \in cfg[pr[1]]}

Configs ==
    {[t \in ElementTypeSet |-> IF t \in ModelTypes THEN m[t] ELSE {}] :
        m \in {n \in [ModelTypes -> SUBSET AssetIds] :
                  Cardinality({pr \in ModelTypes \X AssetIds : pr[2] \in n[pr[1]]})
                      <= MaxTasks}}

NoImage == [width |-> 0, height |-> 0, data |-> <<>>]

Workers == {"w1", "w2"}

\* The worker pool is not running
ParIdle ==
    /\ base_files = {} /\ queue = {}
    /\ wpc = [w \in Workers |-> "off"]
    /\ wtask = [w \in Workers |-> <<>>]
    /\ wcanvas = [w \in Workers |-> NoImage]
    /\ wmissing = [w \in Workers |-> <<>>]
    /\ wsnap = [w \in Workers |-> <<>>]
    /\ mutex = [c \in {"skipped", "missing"} |-> "free"]

IterIdle ==
    /\ filename = <<>> /\ layers = <<>>
    /\ item_img = NoImage /\ final_img = NoImage
    /\ layer_idx = 0 /\ opened = <<>> /\ ops = <<>>

PureIdle ==
    /\ hex = <<>> /\ gray = 0 /\ alpha = 0 /\ threshold = 0 /\ ret = Pending

InitMain ==
    /\ PureIdle
    /\ config \in Configs
    /\ files \in SUBSET MainLayerFiles
    /\ pc = "types" /\ type_idx = 1 /\ remaining = {} /\ current_image = 0
    /\ IterIdle
    /\ skipped_images = <<>> /\ missing_layers = <<>> /\ saved = {}
    /\ attempted = <<>> /\ base_failed = <<>>
    /\ ParIdle

element_type == element_types[type_idx]

\* for (element_type, elements) in element_types: enter the next map
EnterType ==
    /\ pc = "types" /\ type_idx <= Len(element_types)
    /\ remaining' = config[element_type]
    /\ pc' = "assets"
    /\ UNCHANGED <<parvars, purevars, iovars, itervars, diagvars, histvars,
                   type_idx, current_image>>

\* the inner loop is exhausted: on to the next element type
LeaveType ==
    /\ pc = "assets" /\ remaining = {}
    /\ type_idx' = type_idx + 1
    /\ pc' = "types"
    /\ UNCHANGED <<parvars, purevars, iovars, itervars, diagvars, histvars,
                   remaining, current_image>>

\* the outer loop is exhausted: "Processing complete!", Ok(())
Finish ==
    /\ pc = "types" /\ type_idx > Len(element_types)
    /\ pc' = "done"
    /\ UNCHANGED <<parvars, purevars, iovars, itervars, diagvars, histvars,
                   type_idx, remaining, current_image>>

\* What every start of an iteration does: the HashMap yields some entry
\* not yet seen, and the progress counter advances
StartIteration(name) ==
    /\ pc = "assets" /\ name \in remaining
    /\ remaining' = remaining \ {name}
    /\ current_image' = current_image + 1
    /\ attempted' = Append(attempted, <<element_type, name>>)

\* std::fs::create_dir_all(parent)? fails: main returns the error
MkdirFails ==
    \E name \in remaining :
        /\ StartIteration(name)
        /\ pc' = "failed"
        /\ UNCHANGED <<parvars, purevars, iovars, itervars, diagvars, base_failed, type_idx>>

BaseMissing_no_push ==
    \E name \in remaining :
        /\ StartIteration(name)
        /\ base_failed' = Append(base_failed, <<element_type, name>>)
        /\ pc' = "assets"
        /\ UNCHANGED <<parvars, purevars, iovars, itervars, diagvars, type_idx>>

\* image::open(&item_img_path) fails: push the id and `continue`
BaseMissing ==
    \E name \in remaining :
        /\ StartIteration(name)
        /\ skipped_images' = Append(skipped_images, name)
        /\ base_failed' = Append(base_failed, <<element_type, name>>)
        /\ pc' = "assets"
        /\ UNCHANGED <<parvars, purevars, iovars, itervars, missing_layers, saved, type_idx>>

\* the base image opens: the canvas is created
BaseOpens ==
    \E name \in remaining, lyrs \in LayerLists(MainLayerSpecs), img \in BaseImages :
        /\ StartIteration(name)
        /\ filename' = name /\ layers' = lyrs /\ item_img' = img
        /\ final_img' = main_initial_canvas(img, lyrs)
        /\ layer_idx' = 1 /\ opened' = <<>> /\ ops' = <<>>
        /\ pc' = "layers"
        /\ UNCHANGED <<parvars, purevars, iovars, diagvars, base_failed, type_idx>>

\* one iteration of `for layer_name in layers`
LayerStep ==
    /\ pc = "layers" /\ layer_idx <= Len(layers)
    /\ LET st == main_layer_step([img |-> final_img, opened |-> opened, ops |-> ops],
                                 layer_idx, layers, rarity_folder_opt(element_type),
                                 files)
       IN  final_img' = st.img /\ opened' = st.opened /\ ops' = st.ops
    /\ layer_idx' = layer_idx + 1
    /\ UNCHANGED <<parvars, purevars, iovars, diagvars, histvars, mainvars,
                   filename, layers, item_img>>

\* overlay(&mut final_img, &item_img, 0, 0)
OverlayBase ==
    /\ pc = "layers" /\ layer_idx > Len(layers)
    /\ LET st == main_overlay_base([img |-> final_img, opened |-> opened, ops |-> ops],
                                   item_img)
       IN  final_img' = st.img /\ opened' = st.opened /\ ops' = st.ops
    /\ pc' = "save"
    /\ UNCHANGED <<parvars, purevars, iovars, diagvars, histvars, type_idx, remaining,
                   current_image, filename, layers, item_img, layer_idx>>

\* What ends an iteration: its locals go out of scope
EndIteration ==
    /\ pc' = "assets"
    /\ filename' = <<>> /\ layers' = <<>>
    /\ item_img' = NoImage /\ final_img' = NoImage
    /\ layer_idx' = 0 /\ opened' = <<>> /\ ops' = <<>>

\* final_img.save(&output_path) succeeds
SaveOk ==
    /\ pc = "save"
    /\ saved' = saved \cup {output_path(element_type, filename)}
    /\ EndIteration
    /\ UNCHANGED <<parvars, purevars, iovars, histvars, skipped_images, missing_layers,
                   type_idx, remaining, current_image>>

\* final_img.save(&output_path) fails: a message on stderr, nothing else
SaveFails ==
    /\ pc = "save"
    /\ EndIteration
    /\ UNCHANGED <<parvars, purevars, iovars, histvars, diagvars,
                   type_idx, remaining, current_image>>

NextMain ==
    \/ EnterType \/ LeaveType \/ Finish
    \/ MkdirFails \/ BaseMissing \/ BaseOpens
    \/ LayerStep \/ OverlayBase \/ SaveOk \/ SaveFails

SpecMain == InitMain /\ [][NextMain]_vars

(***************************************************************************)
(* The worker pool of the specification (sections 4.4, 4.5 and 5): one     *)
(* task per (element_type, asset_id) pair, run by any worker; the two      *)
(* diagnostic lists are shared and guarded by one lock each.               *)
(***************************************************************************)
ParLayerFiles ==
    {force_png_path(<<background_base_folder, "perks">>, n) :
        n \in {Str_frame, Str_glow}}

\* The layer list the configuration gives an asset
ParLayersOf(name) ==
    IF name = Str_sword
    THEN <<Spec_frame_red, Str_none, Str_glow>>
    ELSE <<Str_glow, Spec_frame_red>>

\* The decoded base image of an asset
ParBaseImage(t) == IF t[2] = Str_sword THEN BaseA ELSE BaseB

\* Step 3 of the asset compositor: stack the layers when the element type
\* has a layer folder
TaskStack(t, canvas, fileset) ==
    LET rarity == rarity_folder_opt(t[1]) IN
    IF rarity.some
    THEN stack_layers(canvas, item_img_path(t[1], t[2]),
                      <<background_base_folder, rarity.val>>,
                      ParLayersOf(t[2]), fileset)
    ELSE [img |-> canvas, opened |-> <<>>, ops |-> <<>>, missing_layers |-> <<>>]

\* One task run alone, start to end: what it adds to each diagnostic and the
\* image it saves
TaskAlone(t, bases, fileset) ==
    IF t \notin bases
    THEN [skipped |-> <<t[2]>>, missing |-> <<>>, img |-> NoImage]
    ELSE LET base == ParBaseImage(t)
             r == TaskStack(t, new_rgba8(base.width, base.height), fileset)
         IN  [skipped |-> <<>>, missing |-> r.missing_layers,
              img |-> overlay(r.img, base)]

\* The diagnostics after the tasks are run one after another
RECURSIVE SequentialRun(_, _, _)
SequentialRun(tasks, bases, fileset) ==
    IF tasks = {} THEN [skipped |-> <<>>, missing |-> <<>>]
    ELSE LET t == CHOOSE x \in tasks : TRUE
             one == TaskAlone(t, bases, fileset)
             rest == SequentialRun(tasks \ {t}, bases, fileset)
         IN  [skipped |-> one.skipped \o rest.skipped,
              missing |-> one.missing \o rest.missing]

MutexAlwaysFree(c) == TRUE

\* Mutex::lock returns only when no worker holds the lock
MutexFree(c) == mutex[c] = "free"

InitPar ==
    /\ PureIdle
    /\ config \in Configs
    /\ files \in SUBSET ParLayerFiles
    /\ base_files \in SUBSET Pairs(config)
    /\ queue = Pairs(config)
    /\ wpc = [w \in Workers |-> "idle"]
    /\ wtask = [w \in Workers |-> <<>>]
    /\ wcanvas = [w \in Workers |-> NoImage]
    /\ wmissing = [w \in Workers |-> <<>>]
    /\ wsnap = [w \in Workers |-> <<>>]
    /\ mutex = [c \in {"skipped", "missing"} |-> "free"]
    /\ pc = "idle" /\ type_idx = 0 /\ remaining = {} /\ current_image = 0
    /\ IterIdle
    /\ skipped_images = <<>> /\ missing_layers = <<>> /\ saved = {}
    /\ attempted = <<>> /\ base_failed = <<>>

ParFrame == UNCHANGED <<purevars, iovars, itervars, mainvars, base_files>>

\* a worker takes a task nobody has taken
TakeTask(w) ==
    /\ wpc[w] = "idle"
    /\ \E t \in queue :
          /\ queue' = queue \ {t}
          /\ wtask' = [wtask EXCEPT ![w] = t]
          /\ attempted' = Append(attempted, t)
    /\ wpc' = [wpc EXCEPT ![w] = "open"]
    /\ ParFrame
    /\ UNCHANGED <<diagvars, base_failed, wcanvas, wmissing, wsnap, mutex>>

\* step 1: the base image does not open; the id goes to the skipped list
OpenBaseFails(w) ==
    /\ wpc[w] = "open" /\ wtask[w] \notin base_files
    /\ base_failed' = Append(base_failed, wtask[w])
    /\ wpc' = [wpc EXCEPT ![w] = "lock_skipped"]
    /\ ParFrame
    /\ UNCHANGED <<diagvars, attempted, queue, wtask, wcanvas, wmissing, wsnap, mutex>>

\* steps 1 and 2: the base image opens; a transparent canvas of its size
OpenBaseOk(w) ==
    /\ wpc[w] = "open" /\ wtask[w] \in base_files
    /\ LET base == ParBaseImage(wtask[w]) IN
       wcanvas' = [wcanvas EXCEPT ![w] = new_rgba8(base.width, base.height)]
    /\ wpc' = [wpc EXCEPT ![w] = "stack"]
    /\ ParFrame
    /\ UNCHANGED <<diagvars, histvars, queue, wtask, wmissing, wsnap, mutex>>

\* step 3: stack_layers on the worker's own canvas
Stack(w) ==
    /\ wpc[w] = "stack"
    /\ LET r == TaskStack(wtask[w], wcanvas[w], files) IN
          /\ wcanvas' = [wcanvas EXCEPT ![w] = r.img]
          /\ wmissing' = [wmissing EXCEPT ![w] = r.missing_layers]
          /\ wpc' = [wpc EXCEPT ![w] =
                        IF r.missing_layers # <<>> THEN "lock_missing" ELSE "overlay"]
    /\ ParFrame
    /\ UNCHANGED <<diagvars, histvars, queue, wtask, wsnap, mutex>>

\* lock() on the collection the worker has something for
Lock(w) ==
    \E c \in {"skipped", "missing"} :
        /\ wpc[w] = IF c = "skipped" THEN "lock_skipped" ELSE "lock_missing"
        /\ MutexFree(c)
        /\ mutex' = [mutex EXCEPT ![c] = w]
        /\ wpc' = [wpc EXCEPT ![w] =
                      IF c = "skipped" THEN "read_skipped" ELSE "read_missing"]
        /\ ParFrame
        /\ UNCHANGED <<diagvars, histvars, queue, wtask, wcanvas, wmissing, wsnap>>

\* the append reads the list ...
ReadList(w) ==
    /\ wpc[w] \in {"read_skipped", "read_missing"}
    /\ wsnap' = [wsnap EXCEPT ![w] =
                    IF wpc[w] = "read_skipped" THEN skipped_images
                    ELSE missing_layers]
    /\ wpc' = [wpc EXCEPT ![w] =
                  IF wpc[w] = "read_skipped" THEN "write_skipped" ELSE "write_missing"]
    /\ ParFrame
    /\ UNCHANGED <<diagvars, histvars, queue, wtask, wcanvas, wmissing, mutex>>

\* ... writes it back with its entry added, and unlocks; a skipped task ends
WriteSkipped(w) ==
    /\ wpc[w] = "write_skipped"
    /\ skipped_images' = Append(wsnap[w], wtask[w][2])
    /\ mutex' = [mutex EXCEPT !["skipped"] = "free"]
    /\ wsnap' = [wsnap EXCEPT ![w] = <<>>]
    /\ wtask' = [wtask EXCEPT ![w] = <<>>]
    /\ wpc' = [wpc EXCEPT ![w] = "idle"]
    /\ ParFrame
    /\ UNCHANGED <<missing_layers, saved, histvars, queue, wcanvas, wmissing>>

WriteMissing(w) ==
    /\ wpc[w] = "write_missing"
    /\ missing_layers' = wsnap[w] \o wmissing[w]
    /\ mutex' = [mutex EXCEPT !["missing"] = "free"]
    /\ wsnap' = [wsnap EXCEPT ![w] = <<>>]
    /\ wmissing' = [wmissing EXCEPT ![w] = <<>>]
    /\ wpc' = [wpc EXCEPT ![w] = "overlay"]
    /\ ParFrame
    /\ UNCHANGED <<skipped_images, saved, histvars, queue, wtask, wcanvas>>

\* step 4: the base image over the worker's canvas
ParOverlayBase(w) ==
    /\ wpc[w] = "overlay"
    /\ wcanvas' = [wcanvas EXCEPT ![w] = overlay(@, ParBaseImage(wtask[w]))]
    /\ wpc' = [wpc EXCEPT ![w] = "save"]
    /\ ParFrame
    /\ UNCHANGED <<diagvars, histvars, queue, wtask, wmissing, wsnap, mutex>>

\* step 5: save; a failure is reported and the task ends all the same
ParSave(w) ==
    /\ wpc[w] = "save"
    /\ \E ok \in BOOLEAN :
          saved' = IF ok THEN saved \cup {output_path(wtask[w][1], wtask[w][2])}
                   ELSE saved
    /\ wcanvas' = [wcanvas EXCEPT ![w] = NoImage]
    /\ wtask' = [wtask EXCEPT ![w] = <<>>]
    /\ wpc' = [wpc EXCEPT ![w] = "idle"]
    /\ ParFrame
    /\ UNCHANGED <<skipped_images, missing_layers, histvars, queue, wmissing,
                   wsnap, mutex>>

NextPar ==
    \E w \in Workers :
        \/ TakeTask(w) \/ OpenBaseFails(w) \/ OpenBaseOk(w) \/ Stack(w)
        \/ Lock(w) \/ ReadList(w) \/ WriteSkipped(w) \/ WriteMissing(w)
        \/ ParOverlayBase(w) \/ ParSave(w)

SpecPar == InitPar /\ [][NextPar]_vars

ParDone == queue = {} /\ \A w \in Workers : wpc[w] = "idle"

(***************************************************************************)
(* Specification of stack_layers as a function of its arguments            *)
(***************************************************************************)
Spec_glow_split == Str_glow \o <<"#", "f", "f", "#", "0", "0", "0">>
Spec_frame_hash == Str_frame \o <<"#", "#">> \o Str_red

StackLayerSpecs ==
    {<<>>, Str_none, Str_glow, Spec_frame_red, Spec_frame_hash, Spec_glow_split}

StackLayerFolder == <<background_base_folder, "perks">>

InitStack ==
    /\ PureIdle
    /\ ParIdle
    /\ config = <<>>
    /\ files \in SUBSET ParLayerFiles
    /\ pc = "stack_call" /\ type_idx = 0 /\ remaining = {} /\ current_image = 0
    /\ filename \in AssetIds
    /\ layers \in LayerLists(StackLayerSpecs)
    /\ final_img \in {new_rgba8(2, 2), BaseB}
    /\ item_img = final_img     \* the image as it was handed in
    /\ layer_idx = 0 /\ opened = <<>> /\ ops = <<>>
    /\ skipped_images = <<>> /\ missing_layers = <<>> /\ saved = {}
    /\ attempted = <<>> /\ base_failed = <<>>

\* a call of stack_layers: the canvas is changed in place, the list returned
CallStackLayers ==
    /\ pc = "stack_call"
    /\ LET r == stack_layers(final_img, item_img_path("perks", filename),
                             StackLayerFolder, layers, files)
       IN  /\ final_img' = r.img
           /\ opened' = r.opened
           /\ ops' = r.ops
           /\ ret' = [tag |-> "Returned", missing_layers |-> r.missing_layers]
    /\ pc' = "stack_done"
    /\ UNCHANGED <<parvars, hex, gray, alpha, threshold, iovars, diagvars, histvars,
                   type_idx, remaining, current_image, filename, layers, item_img,
                   layer_idx>>

NextStack == CallStackLayers

SpecStack == InitStack /\ [][NextStack]_vars

\* Both compositing codes: a run of main, or a call of stack_layers
SpecCompose == (InitMain \/ InitStack) /\ [][NextMain \/ NextStack]_vars

(***************************************************************************)
(* Inputs of the two pure-function specifications                          *)
(***************************************************************************)
HexAlphabet == {"#", "+", "1", "F", "U+00E9"}

Hashes(k) == [i \in 1 .. k |-> "#"]

HexDigits == <<"0", "1", "2", "3", "4", "5", "6", "7",
               "8", "9", "a", "b", "c", "d", "e", "f">>

\* format!("{:02x}", n)
ToHex2(n) == <<HexDigits[(n \div 16) + 1], HexDigits[(n % 16) + 1]>>

RgbToHex(c) == ToHex2(c[1]) \o ToHex2(c[2]) \o ToHex2(c[3])

ToLower(c) ==
    CASE c = "A" -> "a" [] c = "B" -> "b" [] c = "C" -> "c"
      [] c = "D" -> "d" [] c = "E" -> "e" [] c = "F" -> "f"
      [] OTHER -> c

StrToLower(s) == [i \in 1 .. Len(s) |-> ToLower(s[i])]

TintBytes     == {0, 1, 128, 255}
Tints         == TintBytes \X TintBytes \X TintBytes
AlphaVals     == {0, 77, 255}
ThresholdVals == {0, 37, 255}
TintInputs ==
    {RgbToHex(t) : t \in Tints}
        \cup {<<"#">> \o RgbToHex(t) : t \in {<<255, 0, 0>>, <<1, 128, 255>>}}
        \cup {<<"f", "f">>, <<"g", "g", "0", "0", "0", "0">>}

\* The batch loop is not running
MainIdle ==
    /\ config = <<>> /\ files = {}
    /\ pc = "idle" /\ type_idx = 0 /\ remaining = {} /\ current_image = 0
    /\ filename = <<>> /\ layers = <<>>
    /\ item_img = NoImage /\ final_img = NoImage
    /\ layer_idx = 0 /\ opened = <<>> /\ ops = <<>>
    /\ skipped_images = <<>> /\ missing_layers = <<>> /\ saved = {}
    /\ attempted = <<>> /\ base_failed = <<>>

(***************************************************************************)
(* Specification of hex_to_rgb as a pure function                          *)
(***************************************************************************)
InitHex ==
    /\ \E k \in 0 .. MaxHashes, n \in 0 .. MaxBodyLen :
           \E body \in [1 .. n -> HexAlphabet] : hex = Hashes(k) \o body
    /\ gray = 0 /\ alpha = 0 /\ threshold = 0
    /\ ret = Pending
    /\ MainIdle
    /\ ParIdle

CallHexToRgb ==
    /\ ret = Pending
    /\ ret' = hex_to_rgb(hex)
    /\ UNCHANGED <<parvars, hex, gray, alpha, threshold, iovars, itervars, diagvars,
                   histvars, mainvars>>

NextHex == CallHexToRgb

SpecHex == InitHex /\ [][NextHex]_vars

(***************************************************************************)
(* Specification of colorize_grayscale_image as a pure function            *)
(***************************************************************************)
InitTint ==
    /\ hex \in TintInputs
    /\ gray \in U8
    /\ alpha \in AlphaVals
    /\ threshold \in ThresholdVals
    /\ ret = Pending
    /\ MainIdle
    /\ ParIdle

CallColorize ==
    /\ ret = Pending
    /\ ret' = colorize_grayscale_image(<<gray, alpha>>, hex, threshold)
    /\ UNCHANGED <<parvars, hex, gray, alpha, threshold, iovars, itervars, diagvars,
                   histvars, mainvars>>

NextTint == CallColorize

SpecTint == InitTint /\ [][NextTint]_vars

(***************************************************************************)
(* C1: for every pixel, tint and threshold, colorize_grayscale_image with  *)
(* a valid hex colour keeps the alpha, yields floor(gray * tint / 255) in  *)
(* [0, tint] per channel when gray >= threshold and (gray, gray, gray)     *)
(* when gray < threshold; gray * tint always fits 16 unsigned bits.        *)
(***************************************************************************)
C1_TintContract ==
    ret # Pending =>
        \A t \in Tints :
            hex \in {RgbToHex(t), <<"#">> \o RgbToHex(t)} =>
                /\ ret.tag = "Ok"
                /\ ret.px[4] = alpha
                /\ \A i \in 1 .. 3 : gray * t[i] <= 65535
                /\ IF gray >= threshold
                   THEN \A i \in 1 .. 3 :
                            /\ ret.px[i] = (gray * t[i]) \div 255
                            /\ ret.px[i] \in 0 .. t[i]
                   ELSE ret.px = <<gray, gray, gray, alpha>>

C1_Witness ==
    /\ ret # Pending /\ ret.tag = "Ok"
    /\ hex = <<"#">> \o RgbToHex(<<1, 128, 255>>)
    /\ gray = 255 /\ threshold = 37 /\ alpha = 77
    /\ ret.px = <<1, 128, 255, 77>>

(***************************************************************************)
(* C2: hex_to_rgb succeeds exactly on the strings that, after stripping    *)
(* one optional leading '#', are 6 hexadecimal digits, and then returns    *)
(* the (r, g, b) whose two-digit hex rendering is those digits; every      *)
(* other input is a parse failure.                                         *)
(***************************************************************************)
StripOptionalHash(s) == IF s # <<>> /\ Head(s) = "#" THEN Tail(s) ELSE s

IsSixHexDigits(s) == Len(s) = 6 /\ \A i \in 1 .. 6 : IsHexDigit(s[i])

C2_HexParseExact ==
    ret # Pending =>
        LET body == StripOptionalHash(hex) IN
        IF IsSixHexDigits(body)
        THEN ret.tag = "Ok" /\ RgbToHex(ret.rgb) = StrToLower(body)
        ELSE ret.tag = "Err"

(***************************************************************************)
(* Vocabulary of the claims about the batch loop                           *)
(***************************************************************************)
StripSentinels(lyrs) == SelectSeq(lyrs, LAMBDA l : ~IsSentinel(l))

InIteration == pc \in {"layers", "save"}

\* How many layer specs the loop of the iteration has gone through
LayersDone == IF pc = "save" THEN Len(layers) ELSE layer_idx - 1

OpenedOk == SelectSeq(opened, LAMBDA o : o.ok)
OpenedFailed == SelectSeq(opened, LAMBDA o : ~o.ok)

RECURSIVE OverlayAll(_, _)
OverlayAll(canvas, imgs) ==
    IF imgs = <<>> THEN canvas
    ELSE OverlayAll(overlay(canvas, Head(imgs)), Tail(imgs))

IsTransparent(img) ==
    \A c \in Coords(img.width, img.height) : img.data[c][4] = 0

BeforeFirstHash(s) ==
    IF \E i \in 1 .. Len(s) : s[i] = "#"
    THEN SubSeq(s, 1, (CHOOSE i \in 1 .. Len(s) :
                          s[i] = "#" /\ \A j \in 1 .. i - 1 : s[j] # "#") - 1)
    ELSE s

(***************************************************************************)
(* C3: a layer spec "" or "none", wherever it stands in the list, leads to *)
(* no file open and leaves the canvas alone: the final image for a layer   *)
(* list is the final image for the list with every sentinel removed.       *)
(***************************************************************************)
C3_SentinelsAreNoOps ==
    /\ InIteration =>
          \A k \in 1 .. Len(opened) : ~IsSentinel(layers[opened[k].idx])
    /\ pc = "save" =>
          final_img = main_final_img(item_img, StripSentinels(layers),
                                     rarity_folder_opt(element_type), files)

(***************************************************************************)
(* C4: for an asset whose base image opens, the overlays applied to its    *)
(* canvas are the loadable non-sentinel layers in list order, then the     *)
(* base image exactly once and last, also when no layer was drawn.         *)
(***************************************************************************)
\* The image stack_layers draws for the i-th spec: the file's image, tinted
\* when the spec carries a colour that parses
StackedImage(lyrs, i, file) ==
    LET parts == splitn2(lyrs[i])
        tinted == IF parts.hex_color.some
                  THEN ColorizeImage(LayerImage(file), parts.hex_color.val, 37)
                  ELSE [tag |-> "None"]
    IN  IF tinted.tag = "Ok" THEN tinted.img ELSE LayerImage(file)

C4_OverlayOrder ==
    LET okLayers == [k \in 1 .. Len(OpenedOk) |->
                        [src |-> "layer", idx |-> OpenedOk[k].idx]]
        inOrder ==
            /\ \A k \in 1 .. Len(opened) - 1 : opened[k].idx < opened[k + 1].idx
            /\ \A k \in 1 .. Len(opened) : opened[k].ok = (opened[k].path \in files)
    IN
    /\ InIteration =>
          LET tried == {i \in 1 .. LayersDone :
                          /\ ~IsSentinel(layers[i])
                          /\ rarity_folder_opt(element_type).some}
              okImages == [k \in 1 .. Len(OpenedOk) |->
                              LayerImage(OpenedOk[k].path.file)]
          IN  /\ {opened[k].idx : k \in 1 .. Len(opened)} = tried
              /\ inOrder
              /\ pc = "layers" => ops = okLayers
              /\ pc = "save" =>
                    /\ ops = okLayers \o <<[src |-> "base"]>>
                    /\ final_img =
                          OverlayAll(main_initial_canvas(item_img, layers),
                                     okImages \o <<item_img>>)
    /\ pc = "stack_done" =>
          LET tried == {i \in 1 .. Len(layers) : ~IsSentinel(layers[i])}
              okImages == [k \in 1 .. Len(OpenedOk) |->
                              StackedImage(layers, OpenedOk[k].idx,
                                           OpenedOk[k].path.file)]
          IN  /\ {opened[k].idx : k \in 1 .. Len(opened)} = tried
              /\ inOrder
              /\ ops = okLayers
              /\ final_img = OverlayAll(item_img, okImages)

C4_Witness ==
    /\ pc = "save"
    /\ layers = <<Str_glow, Str_none, Spec_frame_red>>
    /\ ops = <<[src |-> "layer", idx |-> 1], [src |-> "layer", idx |-> 3],
               [src |-> "base"]>>

(***************************************************************************)
(* C5: when a layer file cannot be opened the remaining specs are still    *)
(* stacked and the output is still saved, and the missing-layers           *)
(* diagnostic has exactly one entry for the asset, listing exactly the     *)
(* paths of its unopenable layers; no entry when every layer opened.       *)
(***************************************************************************)
C5_MissingLayerEntry ==
    pc = "save" =>
        LET asset == item_img_path(element_type, filename)
            mine  == SelectSeq(missing_layers, LAMBDA e : e.asset = asset)
            paths == [k \in 1 .. Len(OpenedFailed) |-> OpenedFailed[k].path]
        IN  IF paths = <<>> THEN mine = <<>>
            ELSE mine = <<[asset |-> asset, paths |-> paths]>>

(***************************************************************************)
(* C6: when the base image of an asset cannot be opened, nothing is        *)
(* resolved, opened, composited or saved for it and its id is appended     *)
(* once to the skipped-assets diagnostic, which holds exactly the ids of   *)
(* the (element_type, asset_id) pairs whose base image failed to open.     *)
(***************************************************************************)
C6_SkippedExactly ==
    /\ skipped_images = [k \in 1 .. Len(base_failed) |-> base_failed[k][2]]
    /\ \A j, k \in 1 .. Len(base_failed) :
          base_failed[j] = base_failed[k] => j = k
    /\ \A k \in 1 .. Len(base_failed) :
          /\ output_path(base_failed[k][1], base_failed[k][2]) \notin saved
          /\ \E j \in 1 .. Len(attempted) : attempted[j] = base_failed[k]
    /\ (InIteration \/ opened # <<>> \/ ops # <<>>) =>
          /\ attempted # <<>>
          /\ \A k \in 1 .. Len(base_failed) :
                base_failed[k] # attempted[Len(attempted)]

C6_Witness ==
    /\ pc = "done"
    /\ skipped_images = <<Str_sword>>
    /\ base_failed = <<<<"perks", Str_sword>>>>
    /\ saved = {output_path("actions", Str_sword)}

(***************************************************************************)
(* C7: no per-asset error (base or layer unopenable, output directory not  *)
(* creatable, save failure) aborts the run: it completes having attempted  *)
(* every (element_type, asset_id) pair of the configuration exactly once.  *)
(***************************************************************************)
C7_RunNeverAborts ==
    /\ pc # "failed"
    /\ pc = "done" =>
          /\ {attempted[k] : k \in 1 .. Len(attempted)} = Pairs(config)
          /\ Len(attempted) = Cardinality(Pairs(config))

(***************************************************************************)
(* C9: for every asset whose base image opens and every layer list, the    *)
(* canvas before any overlay is fully transparent and has the base image's *)
(* width and height; with no loadable layer the saved image is the base    *)
(* image drawn once over a transparent canvas.                             *)
(***************************************************************************)
C9_TransparentCanvas ==
    /\ (pc = "layers" /\ layer_idx = 1) =>
          /\ final_img.width = item_img.width
          /\ final_img.height = item_img.height
          /\ IsTransparent(final_img)
    /\ (pc = "save" /\ ops = <<[src |-> "base"]>>) =>
          final_img = overlay(new_rgba8(item_img.width, item_img.height), item_img)

(***************************************************************************)
(* C10: for every non-sentinel layer spec the file opened is               *)
(* <layer_folder>/<base_name>.png, base_name being the part of the spec    *)
(* before its first '#' (the whole spec when it has none).                 *)
(***************************************************************************)
C10_PathFromBaseName ==
    InIteration =>
        \A k \in 1 .. Len(opened) :
            opened[k].path =
                [dir  |-> <<background_base_folder,
                            background_type_folders[element_type]>>,
                 file |-> BeforeFirstHash(layers[opened[k].idx]) \o Str_png]

(***************************************************************************)
(* C8: under any interleaving of the workers the skipped-assets and the    *)
(* missing-layers collections end with the contents, as multisets, of a    *)
(* run of the same tasks one after another: no append is lost or torn,     *)
(* and every task composes on its own canvas only.                         *)
(***************************************************************************)
BagOfSeq(q) ==
    [x \in {q[i] : i \in 1 .. Len(q)} |->
        Cardinality({i \in 1 .. Len(q) : q[i] = x})]

C8_SameAsSequential ==
    LET alone == SequentialRun(Pairs(config), base_files, files) IN
    /\ ParDone =>
          /\ BagOfSeq(skipped_images) = BagOfSeq(alone.skipped)
          /\ BagOfSeq(missing_layers) = BagOfSeq(alone.missing)
    /\ Len(skipped_images) <= Len(alone.skipped)
    /\ Len(missing_layers) <= Len(alone.missing)
    /\ \A w \in Workers :
          wpc[w] = "save" =>
              wcanvas[w] = TaskAlone(wtask[w], base_files, files).img

C8_Witness ==
    /\ ParDone
    /\ Len(skipped_images) = 2
    /\ Cardinality(Pairs(config)) = 2

(***************************************************************************)
(* helper.rs taken alone.  stack_layers, which main.rs does not call,      *)
(* keeps the parts of C3, C5 and C10 that the loop of main.rs breaks.      *)
(***************************************************************************)
\* sentinels are never opened, and the call gives what it gives for the list
\* without them
StackLayers_SentinelsAreNoOps ==
    pc = "stack_done" =>
        LET bare == stack_layers(item_img, item_img_path("perks", filename),
                                 StackLayerFolder, StripSentinels(layers), files)
        IN  /\ \A k \in 1 .. Len(opened) : ~IsSentinel(layers[opened[k].idx])
            /\ final_img = bare.img
            /\ ret.missing_layers = bare.missing_layers

\* one grouped entry listing the unopenable paths, or no entry at all
StackLayers_GroupedEntry ==
    pc = "stack_done" =>
        LET paths == [k \in 1 .. Len(OpenedFailed) |-> OpenedFailed[k].path] IN
        ret.missing_layers =
            IF paths = <<>> THEN <<>>
            ELSE <<[asset |-> item_img_path("perks", filename), paths |-> paths]>>

\* the file is <layer_folder>/<part before the first '#'>.png
StackLayers_PathFromBaseName ==
    pc = "stack_done" =>
        \A k \in 1 .. Len(opened) :
            opened[k].path =
                [dir  |-> StackLayerFolder,
                 file |-> BeforeFirstHash(layers[opened[k].idx]) \o Str_png]

StackLayers_Witness ==
    /\ pc = "stack_done"
    /\ layers = <<Spec_frame_hash, Str_none, Spec_glow_split>>
    /\ Len(ops) = 1 /\ Len(ret.missing_layers) = 1

=============================================================================
